---- MODULE Spec2Model ----
(***************************************************************************)
(* Model of the spaced-review engine of grind_review_bot: the problems     *)
(* store (raw-SQL DB layer and GORM Repository layer), the per-user        *)
(* statistics, the due-for-review query and the daily reminder scheduler.  *)
(***************************************************************************)
EXTENDS Integers, Sequences, FiniteSets, TLC

(* ---------------------------------------------------------------------- *)
(* Bounds of the model                                                     *)
(* ---------------------------------------------------------------------- *)
MaxTime == 3
MaxProblems == 2
MaxCycles == 2
MaxRetryAttempts == 1
MaxLookback == 1
MaxReviews == 2
MaxStoreTime == 1
MaxLimit == 1
MaxEdits == 1
MaxGetters == 2
MaxValues == 2
MaxExpiration == 1

(* One day, in clock ticks: the job is registered with Every(1).Day().     *)
Day == 2

(* A nil *time.Time (SQL NULL) for last_reviewed_at.                        *)
NULL == -1

Users == {"u1", "u2"}
Jobs == 1..MaxCycles

StatusSolved == "Solved"
StatusNeededHint == "Needed Hint"
StatusStuck == "Stuck"
DifficultyEasy == "Easy"
DifficultyMedium == "Medium"
DifficultyHard == "Hard"

VARIABLES
    now,          \* time.Now(), in ticks
    problems,     \* table problems: id -> row
    nextID,       \* AUTOINCREMENT counter of problems.id
    user_stats,   \* table user_stats: user_id -> row
    tags,         \* table tags: the names stored (name is UNIQUE NOT NULL)
    problem_tags, \* table problem_tags: pairs <<problem id, tag name>>
    config,       \* config.Config: the scheduler's part and the DSN's foreign keys
    cyc,          \* the executions of sendDailyReviewReminder started by cron
    nextRun,      \* the time cron fires the job next
    running,      \* Scheduler.running
    stopCh,       \* Scheduler.stop: "open" or "closed"
    impl,         \* the store layer of the build: "sql" (DB) or "gorm" (Repository)
    call,         \* the last store call made
    ret,          \* what the last store call returned
    result,       \* what the last due query returned
    created,      \* history: the problems each user has created, per counter
    edits,        \* the executions of handleEditCommand in flight, per user
    cache,        \* pkg/cache: the items of a Cache and the calls in flight on it
    schema        \* the schema of the database and the run of Migrate on it

vars == <<now, problems, nextID, user_stats, tags, problem_tags, config, cyc, nextRun, running, stopCh,
          impl, call, ret, result, created, edits, cache, schema>>

storeVars == <<problems, nextID, user_stats, tags, problem_tags>>
tagVars == <<tags, problem_tags>>
mainVars == <<running, stopCh>>
callVars == <<impl, call, ret, result, created, edits>>
schedVars == <<config, cyc, nextRun, running, stopCh>>

(* ---------------------------------------------------------------------- *)
(* Helpers                                                                 *)
(* ---------------------------------------------------------------------- *)
Range(s) == {s[i] : i \in DOMAIN s}

(* All orderings of a finite set as sequences without repetition.          *)
Orderings(S) ==
    {s \in [1..Cardinality(S) -> S] : \A i, j \in 1..Cardinality(S) : i # j => s[i] # s[j]}

(* Rows a GORM query sees: soft-deleted rows (deleted_at set) are hidden.  *)
Visible == {id \in DOMAIN problems : ~problems[id].DeletedAt}

(* FromProblem: the DTO of a stored row.                                   *)
FromProblem(id) ==
    [ID |-> id,
     UserID |-> problems[id].UserID,
     ProblemName |-> problems[id].ProblemName,
     Difficulty |-> problems[id].Difficulty,
     Category |-> problems[id].Category,
     Status |-> problems[id].Status,
     SolvedAt |-> problems[id].SolvedAt,
     LastReviewedAt |-> problems[id].LastReviewedAt,
     ReviewCount |-> problems[id].ReviewCount]

(* A validation that does not look at the category.                        *)
ValidateProblemEntry_NoCategory(p) ==
    /\ p.UserID # ""
    /\ p.ProblemName # ""
    /\ p.Difficulty \in {"Easy", "Medium", "Hard"}
    /\ p.Status \in {"Solved", "Needed Hint", "Stuck"}

(* ValidateProblemEntry: TRUE iff the entry passes every check.            *)
ValidateProblemEntry(p) ==
    /\ p.UserID # ""
    /\ p.ProblemName # ""
    /\ p.Difficulty \in {DifficultyEasy, DifficultyMedium, DifficultyHard}
    /\ p.Status \in {StatusSolved, StatusNeededHint, StatusStuck}
    /\ p.Category # ""

(* strings.TrimSpace on a string held as the sequence of its characters.   *)
RECURSIVE TrimLeft(_)
TrimLeft(str) ==
    IF str # <<>> /\ Head(str) = " " THEN TrimLeft(Tail(str)) ELSE str

RECURSIVE TrimRight(_)
TrimRight(str) ==
    IF str # <<>> /\ str[Len(str)] = " " THEN TrimRight(SubSeq(str, 1, Len(str) - 1)) ELSE str

TrimSpace(str) == TrimRight(TrimLeft(str))

(* The names the loops over p.Tags work on, in order: each tag trimmed,    *)
(* the empty ones skipped.                                                 *)
RECURSIVE TagNames(_)
TagNames(list) ==
    IF list = <<>> THEN <<>>
    ELSE LET tag == TrimSpace(Head(list))
         IN IF tag = <<>> THEN TagNames(Tail(list))
            ELSE <<tag>> \o TagNames(Tail(list))

(* Rows of problem_tags for one problem and a list of names.               *)
Links(problemID, names) == {<<problemID, names[i]>> : i \in DOMAIN names}

LinksOf(problemID) == {l \in problem_tags : l[1] = problemID}

(* The INSERTs INTO problem_tags of a loop over names all succeed: the     *)
(* primary key (problem_id, tag_id) admits each pair once.                 *)
CanLink(problemID, names, links) ==
    /\ \A i, j \in DOMAIN names : i # j => names[i] # names[j]
    /\ \A i \in DOMAIN names : <<problemID, names[i]>> \notin links

(* ---------------------------------------------------------------------- *)
(* Repository (GORM) queries                                               *)
(* ---------------------------------------------------------------------- *)

(* A WHERE clause without the last_reviewed_at condition.                  *)
ReviewWhere_IgnoresLastReviewed(id, userID, cutoff) ==
    /\ problems[id].UserID = userID
    /\ problems[id].SolvedAt <= cutoff

(* WHERE clause of Repository.ListProblemsForReview at time t.             *)
ReviewWhere(id, userID, cutoff) ==
    /\ problems[id].UserID = userID
    /\ problems[id].SolvedAt <= cutoff
    /\ (problems[id].LastReviewedAt = NULL \/ problems[id].LastReviewedAt <= cutoff)

(* ORDER BY solved_at ASC: rows in non-decreasing solved_at; the order of  *)
(* rows with equal solved_at is whatever the SQL engine produces.          *)
OrderBySolvedAtAsc(ids) ==
    {s \in Orderings(ids) :
        \A i, j \in 1..Len(s) : i < j => problems[s[i]].SolvedAt <= problems[s[j]].SolvedAt}

(* Repository.ListProblemsForReview: the result sequences the query may    *)
(* return when it runs at time t.                                          *)
ListProblemsForReview(userID, lookbackPeriod, t) ==
    LET cutoff == t - lookbackPeriod
        rows == {id \in Visible : ReviewWhere(id, userID, cutoff)}
    IN {[i \in 1..Len(s) |-> FromProblem(s[i])] : s \in OrderBySolvedAtAsc(rows)}

(* Repository.ListAllUsers: SELECT DISTINCT user_id, in any order.         *)
ListAllUsers == Orderings({problems[id].UserID : id \in Visible})

(* ---------------------------------------------------------------------- *)
(* DB (raw SQL) queries                                                    *)
(* ---------------------------------------------------------------------- *)

(* DB.ListProblemsForReview: the same WHERE and ORDER BY over every row of *)
(* the table (this layer has no deleted_at column).                        *)
DB_ListProblemsForReview(userID, lookbackPeriod, t) ==
    LET cutoff == t - lookbackPeriod
        rows == {id \in DOMAIN problems : ReviewWhere(id, userID, cutoff)}
    IN {[i \in 1..Len(s) |-> FromProblem(s[i])] : s \in OrderBySolvedAtAsc(rows)}

(* ---------------------------------------------------------------------- *)
(* Store writes.  Each is a relation between the tables before and after   *)
(* the call and r, what the call returns: "ok", "validation", "notfound"   *)
(* or "tx" (the database failed; the transaction was rolled back).         *)
(* ---------------------------------------------------------------------- *)
Counters == {"TotalSolved", "TotalNeededHint", "TotalStuck",
             "EasyCount", "MediumCount", "HardCount"}

(* The counter updateUserStats picks for a status, and for a difficulty.   *)
StatusCounter(status) ==
    CASE status = StatusSolved -> "TotalSolved"
      [] status = StatusNeededHint -> "TotalNeededHint"
      [] status = StatusStuck -> "TotalStuck"

DifficultyCounter(difficulty) ==
    CASE difficulty = DifficultyEasy -> "EasyCount"
      [] difficulty = DifficultyMedium -> "MediumCount"
      [] difficulty = DifficultyHard -> "HardCount"

ZeroStats ==
    [TotalSolved |-> 0, TotalNeededHint |-> 0, TotalStuck |-> 0,
     EasyCount |-> 0, MediumCount |-> 0, HardCount |-> 0, LastActiveAt |-> NULL]

(* One more problem with p's status and difficulty in a row of counters.   *)
Counted(row, p) ==
    [f \in DOMAIN row |->
        IF f \in {StatusCounter(p.Status), DifficultyCounter(p.Difficulty)}
        THEN row[f] + 1 ELSE row[f]]

(* An update of the statistics that counts the status only.                *)
updateUserStats_StatusOnly(p, t) ==
    LET old == IF p.UserID \in DOMAIN user_stats THEN user_stats[p.UserID] ELSE ZeroStats
        new == [old EXCEPT ![StatusCounter(p.Status)] = @ + 1, !.LastActiveAt = t]
    IN [u \in DOMAIN user_stats \cup {p.UserID} |->
           IF u = p.UserID THEN new ELSE user_stats[u]]

(* updateUserStats: the user_stats table after the update for p at time t: *)
(* the row is inserted if missing, one status counter and one difficulty   *)
(* counter are incremented and last_active_at is set.                      *)
updateUserStats(p, t) ==
    LET old == IF p.UserID \in DOMAIN user_stats THEN user_stats[p.UserID] ELSE ZeroStats
        new == [Counted(old, p) EXCEPT !.LastActiveAt = t]
    IN [u \in DOMAIN user_stats \cup {p.UserID} |->
           IF u = p.UserID THEN new ELSE user_stats[u]]

(* The history of creations, kept beside the tables.                       *)
Recorded(p) == [created EXCEPT ![p.UserID] = Counted(@, p)]

(* The row InsertProblem's INSERT writes: review_count and                 *)
(* last_reviewed_at take their column defaults.                            *)
InsertedRow(p) ==
    [UserID |-> p.UserID,
     ProblemName |-> p.ProblemName,
     Difficulty |-> p.Difficulty,
     Category |-> p.Category,
     Status |-> p.Status,
     SolvedAt |-> p.SolvedAt,
     LastReviewedAt |-> NULL,
     ReviewCount |-> 0,
     DeletedAt |-> FALSE]

(* The row ToProblem and tx.Create write, and the columns an update sets:  *)
(* every field of the entry.                                               *)
EntryRow(p) ==
    [UserID |-> p.UserID,
     ProblemName |-> p.ProblemName,
     Difficulty |-> p.Difficulty,
     Category |-> p.Category,
     Status |-> p.Status,
     SolvedAt |-> p.SolvedAt,
     LastReviewedAt |-> p.LastReviewedAt,
     ReviewCount |-> p.ReviewCount,
     DeletedAt |-> FALSE]

WithRow(id, row) ==
    [j \in DOMAIN problems \cup {id} |-> IF j = id THEN row ELSE problems[j]]

WithoutRow(id) == [j \in DOMAIN problems \ {id} |-> problems[j]]

(* An insert whose failure after the INSERT of the row keeps the row.      *)
DB_InsertProblem_NoRollback(p, r) ==
    \/ /\ ~ValidateProblemEntry(p)
       /\ r = "validation"
       /\ UNCHANGED <<storeVars, created>>
    \/ /\ ValidateProblemEntry(p)
       /\ r = "tx"
       /\ problems' = WithRow(nextID, InsertedRow(p))
       /\ nextID' = nextID + 1
       /\ UNCHANGED <<user_stats, tagVars, created>>
    \/ /\ ValidateProblemEntry(p)
       /\ r = "ok"
       /\ CanLink(nextID, TagNames(p.Tags), problem_tags)
       /\ problems' = WithRow(nextID, InsertedRow(p))
       /\ nextID' = nextID + 1
       /\ tags' = tags \cup Range(TagNames(p.Tags))
       /\ problem_tags' = problem_tags \cup Links(nextID, TagNames(p.Tags))
       /\ user_stats' = updateUserStats(p, now)
       /\ created' = Recorded(p)

(* DB.InsertProblem: validation, then one transaction (rolled back by the  *)
(* deferred tx.Rollback on every return before Commit) that inserts the    *)
(* row, upserts each tag name and inserts its link, and updates the        *)
(* statistics.                                                             *)
DB_InsertProblem(p, r) ==
    \/ /\ ~ValidateProblemEntry(p)
       /\ r = "validation"
       /\ UNCHANGED <<storeVars, created>>
    \/ /\ ValidateProblemEntry(p)
       /\ r = "tx"
       /\ UNCHANGED <<storeVars, created>>
    \/ /\ ValidateProblemEntry(p)
       /\ r = "ok"
       /\ CanLink(nextID, TagNames(p.Tags), problem_tags)
       /\ problems' = WithRow(nextID, InsertedRow(p))
       /\ nextID' = nextID + 1
       /\ tags' = tags \cup Range(TagNames(p.Tags))
       /\ problem_tags' = problem_tags \cup Links(nextID, TagNames(p.Tags))
       /\ user_stats' = updateUserStats(p, now)
       /\ created' = Recorded(p)

(* DB.UpdateProblem: the UPDATE sets every column, user_id included, on    *)
(* the row with the entry's id; that no row matched is not looked at.      *)
(* updateProblemTags then deletes the links of that id, upserts each name  *)
(* and inserts its link; with foreign keys enforced a link to a problem    *)
(* that does not exist is refused.                                         *)
DB_UpdateProblem(p, r) ==
    \/ /\ ~ValidateProblemEntry(p)
       /\ r = "validation"
       /\ UNCHANGED <<storeVars, created>>
    \/ /\ ValidateProblemEntry(p)
       /\ r = "tx"
       /\ UNCHANGED <<storeVars, created>>
    \/ /\ ValidateProblemEntry(p)
       /\ r = "ok"
       /\ CanLink(p.ID, TagNames(p.Tags), problem_tags \ LinksOf(p.ID))
       /\ (config.ForeignKeys /\ TagNames(p.Tags) # <<>>) => p.ID \in DOMAIN problems
       /\ problems' = IF p.ID \in DOMAIN problems THEN WithRow(p.ID, EntryRow(p))
                      ELSE problems
       /\ tags' = tags \cup Range(TagNames(p.Tags))
       /\ problem_tags' = (problem_tags \ LinksOf(p.ID)) \cup Links(p.ID, TagNames(p.Tags))
       /\ UNCHANGED <<nextID, user_stats, created>>

(* A delete that also drops the statistics of the problem's user.          *)
DB_DeleteProblem_DropsStats(id, r) ==
    \/ /\ r = "tx"
       /\ UNCHANGED <<storeVars, created>>
    \/ /\ r = "ok"
       /\ problems' = WithoutRow(id)
       /\ user_stats' = [u \in {v \in DOMAIN user_stats :
                                   id \in DOMAIN problems => v # problems[id].UserID} |->
                            user_stats[u]]
       /\ UNCHANGED <<nextID, tagVars, created>>

(* DB.DeleteProblem: DELETE FROM problems WHERE id = ?; that no row        *)
(* matched is not looked at.  The links go with the row (ON DELETE         *)
(* CASCADE) when the connection enforces foreign keys; tags are kept.      *)
DB_DeleteProblem(id, r) ==
    \/ /\ r = "tx"
       /\ UNCHANGED <<storeVars, created>>
    \/ /\ r = "ok"
       /\ problems' = WithoutRow(id)
       /\ problem_tags' = IF config.ForeignKeys THEN problem_tags \ LinksOf(id)
                          ELSE problem_tags
       /\ UNCHANGED <<nextID, user_stats, tags, created>>

(* An UPDATE that sets review_count and leaves last_reviewed_at.           *)
IncrementedRows_CountOnly(problemID, t) ==
    IF problemID \in Visible
    THEN [problems EXCEPT ![problemID].ReviewCount = @ + 1]
    ELSE problems

(* An UPDATE that writes review_count = 1 instead of review_count + 1.     *)
IncrementedRows_SetsOne(problemID, t) ==
    IF problemID \in Visible
    THEN [problems EXCEPT ![problemID].ReviewCount = 1,
                          ![problemID].LastReviewedAt = t]
    ELSE problems

(* The table after the UPDATE of IncrementReviewCount at time t:           *)
(* review_count + 1 and last_reviewed_at = now on the row with that id;    *)
(* no row matched leaves the table as it is (and is no error).             *)
IncrementedRows(problemID, t) ==
    IF problemID \in Visible
    THEN [problems EXCEPT ![problemID].ReviewCount = @ + 1,
                          ![problemID].LastReviewedAt = t]
    ELSE problems

(* DB.IncrementReviewCount and Repository.IncrementReviewCount             *)
IncrementReviewCount(problemID, r) ==
    \/ /\ r = "tx"
       /\ UNCHANGED <<storeVars, created>>
    \/ /\ r = "ok"
       /\ problems' = IncrementedRows(problemID, now)
       /\ UNCHANGED <<nextID, user_stats, tagVars, created>>

(* Repository.CreateProblem: tx.Create saves the row and, as upserts, its  *)
(* Tags and their links.                                                   *)
CreateProblem(entry, r) ==
    \/ /\ ~ValidateProblemEntry(entry)
       /\ r = "validation"
       /\ UNCHANGED <<storeVars, created>>
    \/ /\ ValidateProblemEntry(entry)
       /\ r = "tx"
       /\ UNCHANGED <<storeVars, created>>
    \/ /\ ValidateProblemEntry(entry)
       /\ r = "ok"
       /\ problems' = WithRow(nextID, EntryRow(entry))
       /\ nextID' = nextID + 1
       /\ tags' = tags \cup Range(TagNames(entry.Tags))
       /\ problem_tags' = problem_tags \cup Links(nextID, TagNames(entry.Tags))
       /\ created' = Recorded(entry)
       /\ UNCHANGED user_stats

(* Repository.UpdateProblem: First finds the visible row or the call fails *)
(* with not found; Updates then sets every listed column, UserID included; *)
(* the links are cleared and each tag is found or created, then appended.  *)
UpdateProblem(entry, r) ==
    \/ /\ ~ValidateProblemEntry(entry)
       /\ r = "validation"
       /\ UNCHANGED <<storeVars, created>>
    \/ /\ ValidateProblemEntry(entry)
       /\ r = "tx"
       /\ UNCHANGED <<storeVars, created>>
    \/ /\ ValidateProblemEntry(entry)
       /\ entry.ID \notin Visible
       /\ r = "notfound"
       /\ UNCHANGED <<storeVars, created>>
    \/ /\ ValidateProblemEntry(entry)
       /\ entry.ID \in Visible
       /\ r = "ok"
       /\ problems' = WithRow(entry.ID, EntryRow(entry))
       /\ tags' = tags \cup Range(TagNames(entry.Tags))
       /\ problem_tags' = (problem_tags \ LinksOf(entry.ID))
                              \cup Links(entry.ID, TagNames(entry.Tags))
       /\ UNCHANGED <<nextID, user_stats, created>>

(* Repository.DeleteProblem: a soft delete (Problem has a DeletedAt        *)
(* field), which sets deleted_at and touches no other table;               *)
(* RowsAffected = 0 is not found.  Then the tags no link refers to are     *)
(* deleted.                                                                *)
DeleteProblem(id, r) ==
    \/ /\ r = "tx"
       /\ UNCHANGED <<storeVars, created>>
    \/ /\ id \notin Visible
       /\ r = "notfound"
       /\ UNCHANGED <<storeVars, created>>
    \/ /\ id \in Visible
       /\ r = "ok"
       /\ problems' = [problems EXCEPT ![id].DeletedAt = TRUE]
       /\ tags' = {t \in tags : \E l \in problem_tags : l[2] = t}
       /\ UNCHANGED <<nextID, user_stats, problem_tags, created>>

(* ---------------------------------------------------------------------- *)
(* Inputs                                                                  *)
(* ---------------------------------------------------------------------- *)

(* The entry a caller holds for a stored problem, with the tags it gives.  *)
Entry(id, tagList) == FromProblem(id) @@ [Tags |-> tagList]

(* An entry as the add command builds it.                                  *)
AddEntry(userID, status, difficulty, solvedAt) ==
    [ID |-> 0, UserID |-> userID, ProblemName |-> "two-sum", Difficulty |-> difficulty,
     Category |-> "array", Status |-> status, SolvedAt |-> solvedAt,
     LastReviewedAt |-> NULL, ReviewCount |-> 0, Tags |-> <<>>]

(* Entries the add command submits while the scheduler runs.               *)
SchedEntries == {AddEntry(u, StatusSolved, DifficultyEasy, 0) : u \in Users}

(* No execution of handleEditCommand is in flight.                         *)
NoEdits == [u \in Users |-> [pc |-> "idle", entry |-> AddEntry("", "", "", 0)]]

(* Schema version: the package constant of migrations.go.                  *)
currentVersion == 1

(* The tables migrateV1 creates.                                           *)
Tables == {"problems", "tags", "problem_tags", "user_stats"}

(* A database file that has just been created: no table at all.  pc, start *)
(* and ret describe the run of Migrate: where it is, the version it read,  *)
(* and what it returned.                                                   *)
Fresh ==
    [migrationTable |-> FALSE, versions |-> {}, tables |-> {},
     pc |-> "idle", start |-> 0, ret |-> "none"]

(* A database on which migration 1 has been applied and recorded.          *)
Migrated ==
    [migrationTable |-> TRUE, versions |-> {currentVersion}, tables |-> Tables,
     pc |-> "idle", start |-> 0, ret |-> "none"]

(* pkg/cache.  The calls that run on the cache at once.                    *)
Getters == 1..MaxGetters

(* No entry under the key (sync.Map.Load returns found = false).           *)
NoItem == [value |-> 0, expiration |-> -1]

(* cache.New: an empty map, no call in flight, and the cleanup goroutine   *)
(* between two visits. stored is history: the item the last               *)
(* SetWithExpiration stored, until a Delete call removes the key.          *)
NewCache ==
    [items |-> NoItem,
     stored |-> NoItem,
     get |-> [g \in Getters |-> [pc |-> "idle", value |-> 0, found |-> FALSE]],
     cleanup |-> "wait"]

(* result before any query has returned.                                   *)
NoResult == [userID |-> "", lookbackPeriod |-> 0, at |-> 0, rows |-> <<>>]

(* The add and delete commands while the bot is connected.                 *)
AddCommand(entry) ==
    /\ stopCh = "open"
    /\ nextID <= MaxProblems
    /\ CreateProblem(entry, "ok")
    /\ UNCHANGED <<now, cache, schema, schedVars, impl, call, ret, result, edits>>

DeleteCommand(id) ==
    /\ stopCh = "open"
    /\ DeleteProblem(id, "ok")
    /\ UNCHANGED <<now, cache, schema, schedVars, impl, call, ret, result, edits>>

(* ---------------------------------------------------------------------- *)
(* Scheduler                                                               *)
(* ---------------------------------------------------------------------- *)
IdleCycle ==
    [pc |-> "idle", users |-> <<>>, idx |-> 0, problems |-> <<>>, i |-> 0, k |-> 0,
     sends |-> 0, firstFailed |-> FALSE, delivered |-> FALSE, incd |-> <<>>,
     queried |-> {}, queryAt |-> 0, failed |-> FALSE]

Active(c) == cyc[c].pc # "idle"

(* The goroutine slot cron uses for the next run of the job.               *)
FreeSlot(c) ==
    /\ ~Active(c)
    /\ \A d \in Jobs : d < c => Active(d)

(* cron fires the job: a new execution of sendDailyReviewReminder starts,  *)
(* whether or not an earlier one is still running, and runs up to the      *)
(* loop over the users.                                                    *)
Trigger(c) ==
    /\ running
    /\ now >= nextRun
    /\ FreeSlot(c)
    /\ nextRun' = nextRun + Day
    /\ \/ /\ config.ReviewChannel = ""
          /\ cyc' = cyc                                  \* return
       \/ /\ config.ReviewChannel # ""
          /\ cyc' = cyc                                  \* ListAllUsers failed: return
       \/ /\ config.ReviewChannel # ""
          /\ \E users \in ListAllUsers :
                cyc' = [cyc EXCEPT ![c] =
                          IF Len(users) = 0
                          THEN IdleCycle
                          ELSE [IdleCycle EXCEPT !.pc = "query", !.users = users, !.idx = 1]]
    /\ UNCHANGED <<now, cache, schema, storeVars, config, mainVars, callVars>>

(* A job that returns when the due query fails.                            *)
Query_ReturnsOnError(c) ==
    /\ cyc[c].pc = "query"
    /\ LET userID == cyc[c].users[cyc[c].idx]
           q == cyc[c].queried \cup {userID}
       IN \/ cyc' = [cyc EXCEPT ![c] = IdleCycle]
          \/ \E ps \in ListProblemsForReview(userID, config.LookbackPeriod, now) :
                cyc' = [cyc EXCEPT ![c].pc = IF Len(ps) > 0 THEN "send" ELSE "unitDone",
                                   ![c].problems = ps, ![c].queried = q,
                                   ![c].queryAt = now]
    /\ UNCHANGED <<now, cache, schema, storeVars, config, nextRun, mainVars, callVars>>

(* ListProblemsForReview for the current user.                             *)
Query(c) ==
    /\ cyc[c].pc = "query"
    /\ LET userID == cyc[c].users[cyc[c].idx]
           q == cyc[c].queried \cup {userID}
       IN \/ cyc' = [cyc EXCEPT ![c].pc = "unitDone", ![c].queried = q,
                                ![c].queryAt = now,
                                ![c].failed = TRUE]                 \* query failed
          \/ \E ps \in ListProblemsForReview(userID, config.LookbackPeriod, now) :
                cyc' = [cyc EXCEPT ![c].pc = IF Len(ps) > 0 THEN "send" ELSE "unitDone",
                                   ![c].problems = ps, ![c].queried = q,
                                   ![c].queryAt = now]
    /\ UNCHANGED <<now, cache, schema, storeVars, config, nextRun, mainVars, callVars>>

(* A first send whose failure is followed by the increments.               *)
Send_IncrementsUndelivered(c) ==
    /\ cyc[c].pc = "send"
    /\ \/ cyc' = [cyc EXCEPT ![c].pc = "unitDone",
                             ![c].failed = TRUE]
       \/ cyc' = [cyc EXCEPT ![c].pc = "inc", ![c].k = 1, ![c].sends = 1,
                             ![c].delivered = TRUE]
       \/ cyc' = [cyc EXCEPT ![c].pc = "inc", ![c].k = 1,
                             ![c].i = 0, ![c].sends = 1, ![c].firstFailed = TRUE,
                             ![c].failed = TRUE]
    /\ UNCHANGED <<now, cache, schema, storeVars, config, nextRun, mainVars, callVars>>

(* session.User, then the first ChannelMessageSend.                        *)
Send(c) ==
    /\ cyc[c].pc = "send"
    /\ \/ cyc' = [cyc EXCEPT ![c].pc = "unitDone",
                             ![c].failed = TRUE]                     \* session.User failed
       \/ cyc' = [cyc EXCEPT ![c].pc = "inc", ![c].k = 1, ![c].sends = 1,
                             ![c].delivered = TRUE]                  \* sent
       \/ cyc' = [cyc EXCEPT ![c].pc = IF 0 < config.RetryAttempts THEN "retry" ELSE "unitDone",
                             ![c].i = 0, ![c].sends = 1, ![c].firstFailed = TRUE,
                             ![c].failed = TRUE]                     \* send failed
    /\ UNCHANGED <<now, cache, schema, storeVars, config, nextRun, mainVars, callVars>>

(* A retry loop that runs while i <= RetryAttempts.                        *)
Retry_OneMoreAttempt(c) ==
    /\ cyc[c].pc = "retry"
    /\ cyc[c].i <= config.RetryAttempts
    /\ \/ cyc' = [cyc EXCEPT ![c].pc = "unitDone", ![c].sends = @ + 1,
                             ![c].delivered = TRUE]
       \/ cyc' = [cyc EXCEPT ![c].pc = IF cyc[c].i + 1 <= config.RetryAttempts
                                       THEN "retry" ELSE "unitDone",
                             ![c].i = @ + 1, ![c].sends = @ + 1]
    /\ UNCHANGED <<now, cache, schema, storeVars, config, nextRun, mainVars, callVars>>

(* One pass of the retry loop: sleep RetryDelay, send again.               *)
Retry(c) ==
    /\ cyc[c].pc = "retry"
    /\ cyc[c].i < config.RetryAttempts
    /\ \/ cyc' = [cyc EXCEPT ![c].pc = "unitDone", ![c].sends = @ + 1,
                             ![c].delivered = TRUE]                  \* break
       \/ cyc' = [cyc EXCEPT ![c].pc = IF cyc[c].i + 1 < config.RetryAttempts
                                       THEN "retry" ELSE "unitDone",
                             ![c].i = @ + 1, ![c].sends = @ + 1]
    /\ UNCHANGED <<now, cache, schema, storeVars, config, nextRun, mainVars, callVars>>

(* A loop over problems that is left at the first increment that fails.    *)
Inc_ReturnsOnError(c) ==
    /\ cyc[c].pc = "inc"
    /\ LET p == cyc[c].problems[cyc[c].k]
           next == [cyc EXCEPT ![c].pc = IF cyc[c].k = Len(cyc[c].problems)
                                         THEN "unitDone" ELSE "inc",
                               ![c].k = @ + 1,
                               ![c].incd = Append(@, p.ID)]
       IN \E r \in {"ok", "tx"} :
             /\ IncrementReviewCount(p.ID, r)
             /\ cyc' = IF r = "ok" THEN next
                       ELSE [next EXCEPT ![c].failed = TRUE, ![c].pc = "unitDone"]
    /\ UNCHANGED <<now, cache, schema, config, nextRun, mainVars, impl, call, ret, result, edits>>

(* One pass of the loop over problems after a first-attempt success.       *)
Inc(c) ==
    /\ cyc[c].pc = "inc"
    /\ LET p == cyc[c].problems[cyc[c].k]
           next == [cyc EXCEPT ![c].pc = IF cyc[c].k = Len(cyc[c].problems)
                                         THEN "unitDone" ELSE "inc",
                               ![c].k = @ + 1,
                               ![c].incd = Append(@, p.ID)]
       IN \E r \in {"ok", "tx"} :
             /\ IncrementReviewCount(p.ID, r)
             /\ cyc' = IF r = "ok" THEN next
                       ELSE [next EXCEPT ![c].failed = TRUE]   \* logged
    /\ UNCHANGED <<now, cache, schema, config, nextRun, mainVars, impl, call, ret, result, edits>>

(* The loop over users moves on, or the job returns.                       *)
Advance(c) ==
    /\ cyc[c].pc = "unitDone"
    /\ cyc' = [cyc EXCEPT ![c] =
                 IF cyc[c].idx = Len(cyc[c].users)
                 THEN IdleCycle
                 ELSE [IdleCycle EXCEPT !.pc = "query", !.users = cyc[c].users,
                                        !.idx = cyc[c].idx + 1,
                                        !.queried = cyc[c].queried,
                                        !.failed = cyc[c].failed]]
    /\ UNCHANGED <<now, cache, schema, storeVars, config, nextRun, mainVars, callVars>>

(* ---------------------------------------------------------------------- *)
(* main                                                                    *)
(* ---------------------------------------------------------------------- *)

(* main's shutdown: the signal arrives, discordBot.Shutdown closes the     *)
(* connection, and the deferred Scheduler.Stop runs.                       *)
Stop ==
    /\ stopCh = "open"
    /\ running' = FALSE        \* s.cron.Stop(): the job is fired no more
    /\ stopCh' = "closed"      \* close(s.stop)
    /\ UNCHANGED <<now, cache, schema, storeVars, config, cyc, nextRun, callVars>>

Tick ==
    /\ now < MaxTime
    /\ now' = now + 1
    /\ UNCHANGED <<cache, schema, storeVars, config, cyc, nextRun, mainVars, callVars>>

(* ---------------------------------------------------------------------- *)
(* The scheduler with the Repository store                                 *)
(* ---------------------------------------------------------------------- *)
Init ==
    /\ now = 0
    /\ problems = <<>>
    /\ nextID = 1
    /\ user_stats = <<>>
    /\ tags = {}
    /\ problem_tags = {}
    /\ config \in [ReviewChannel : {"", "reviews"},
                   RetryAttempts : 0..MaxRetryAttempts,
                   LookbackPeriod : 1..MaxLookback,
                   ForeignKeys : {FALSE}]
    /\ cyc = [c \in Jobs |-> IdleCycle]
    /\ nextRun = 1
    /\ running = TRUE
    /\ stopCh = "open"
    /\ impl = "gorm"
    /\ call = "none"
    /\ ret = "none"
    /\ result = NoResult
    /\ created = [u \in Users |-> [f \in Counters |-> 0]]
    /\ edits = NoEdits
    /\ cache = NewCache
    /\ schema = Migrated

Next ==
    \/ \E entry \in SchedEntries : AddCommand(entry)
    \/ \E id \in 1..MaxProblems : DeleteCommand(id)
    \/ \E c \in Jobs : Trigger(c)
    \/ \E c \in Jobs : Query(c)
    \/ \E c \in Jobs : Send(c)
    \/ \E c \in Jobs : Retry(c)
    \/ \E c \in Jobs : Inc(c)
    \/ \E c \in Jobs : Advance(c)
    \/ Stop
    \/ Tick

Spec == Init /\ [][Next]_vars

(* ---------------------------------------------------------------------- *)
(* The scheduler with Scheduler.Stop called by anyone, any number of times *)
(* ---------------------------------------------------------------------- *)

(* After StartScheduler returned: the job was registered and cron started  *)
(* (running), or Do returned an error and the scheduler came back with     *)
(* running = false; the stop channel is open in both cases.                *)
InitStop ==
    /\ now = 0
    /\ problems = <<>>
    /\ nextID = 1
    /\ user_stats = <<>>
    /\ tags = {}
    /\ problem_tags = {}
    /\ config \in [ReviewChannel : {"", "reviews"},
                   RetryAttempts : 0..MaxRetryAttempts,
                   LookbackPeriod : 1..MaxLookback,
                   ForeignKeys : {FALSE}]
    /\ cyc = [c \in Jobs |-> IdleCycle]
    /\ nextRun = 1
    /\ running \in BOOLEAN
    /\ stopCh = "open"
    /\ impl = "gorm"
    /\ call = "none"
    /\ ret = "none"
    /\ result = NoResult
    /\ created = [u \in Users |-> [f \in Counters |-> 0]]
    /\ edits = NoEdits
    /\ cache = NewCache
    /\ schema = Migrated

(* Scheduler.Stop: cron is stopped if the scheduler is running, and the    *)
(* stop channel is closed; close of a closed channel panics, and the       *)
(* goroutine that panicked calls nothing more.                             *)
Scheduler_Stop ==
    /\ ret # "panic"
    /\ running' = FALSE
    /\ IF stopCh = "open"
       THEN stopCh' = "closed" /\ ret' = "ok"
       ELSE stopCh' = stopCh /\ ret' = "panic"
    /\ call' = "Scheduler.Stop"
    /\ UNCHANGED <<now, cache, schema, storeVars, config, cyc, nextRun, impl, result, created, edits>>

NextStop ==
    \/ \E entry \in SchedEntries : AddCommand(entry)
    \/ \E id \in 1..MaxProblems : DeleteCommand(id)
    \/ \E c \in Jobs : Trigger(c)
    \/ \E c \in Jobs : Query(c)
    \/ \E c \in Jobs : Send(c)
    \/ \E c \in Jobs : Retry(c)
    \/ \E c \in Jobs : Inc(c)
    \/ \E c \in Jobs : Advance(c)
    \/ Scheduler_Stop
    \/ Tick

SpecStop == InitStop /\ [][NextStop]_vars

(* ---------------------------------------------------------------------- *)
(* The due query on its own: any tables, any time, any lookback            *)
(* ---------------------------------------------------------------------- *)

(* The rows a table can hold (UpdateProblem writes every column).          *)
QueryRows(layer) ==
    {[UserID |-> u, ProblemName |-> "two-sum", Difficulty |-> DifficultyEasy,
      Category |-> "array", Status |-> StatusSolved, SolvedAt |-> sa,
      LastReviewedAt |-> lr, ReviewCount |-> IF lr = NULL THEN 0 ELSE 1,
      DeletedAt |-> d] :
        u \in Users, sa \in 0..MaxStoreTime, lr \in {NULL} \cup 0..MaxStoreTime,
        d \in IF layer = "gorm" THEN BOOLEAN ELSE {FALSE}}

InitQuery ==
    /\ impl \in {"sql", "gorm"}
    /\ now \in 0..MaxTime
    /\ \E n \in 0..MaxProblems :
          /\ problems \in [1..n -> QueryRows(impl)]
          /\ nextID = n + 1
    /\ user_stats = <<>>
    /\ tags = {}
    /\ problem_tags = {}
    /\ config \in [ReviewChannel : {"reviews"}, RetryAttempts : {0}, LookbackPeriod : {1},
                   ForeignKeys : {FALSE}]
    /\ cyc = [c \in Jobs |-> IdleCycle]
    /\ nextRun = 1
    /\ running = TRUE
    /\ stopCh = "open"
    /\ call = "none"
    /\ ret = "none"
    /\ result = NoResult
    /\ created = [u \in Users |-> [f \in Counters |-> 0]]
    /\ edits = NoEdits
    /\ cache = NewCache
    /\ schema = Migrated

(* A call of DB.ListProblemsForReview.                                     *)
DB_ReviewQuery(userID, lookbackPeriod) ==
    /\ impl = "sql"
    /\ \E rows \in DB_ListProblemsForReview(userID, lookbackPeriod, now) :
          result' = [userID |-> userID, lookbackPeriod |-> lookbackPeriod,
                     at |-> now, rows |-> rows]
    /\ UNCHANGED <<now, cache, schema, storeVars, schedVars, impl, call, ret, created, edits>>

(* A call of Repository.ListProblemsForReview.                             *)
ReviewQuery(userID, lookbackPeriod) ==
    /\ impl = "gorm"
    /\ \E rows \in ListProblemsForReview(userID, lookbackPeriod, now) :
          result' = [userID |-> userID, lookbackPeriod |-> lookbackPeriod,
                     at |-> now, rows |-> rows]
    /\ UNCHANGED <<now, cache, schema, storeVars, schedVars, impl, call, ret, created, edits>>

NextQuery ==
    \/ \E u \in Users, l \in 0..MaxLookback : DB_ReviewQuery(u, l)
    \/ \E u \in Users, l \in 0..MaxLookback : ReviewQuery(u, l)

SpecQuery == InitQuery /\ [][NextQuery]_vars

(* ---------------------------------------------------------------------- *)
(* The store on its own: the calls of either layer, in any order           *)
(* ---------------------------------------------------------------------- *)
Rets == {"ok", "validation", "notfound", "tx"}

StatusDifficulty ==
    {<<StatusSolved, DifficultyEasy>>, <<StatusStuck, DifficultyHard>>}

(* What a caller may pass to a create: entries of the add command, and one *)
(* with a difficulty outside the enumeration.                              *)
StoreEntries ==
    {AddEntry(u, sd[1], sd[2], 0) : u \in Users, sd \in StatusDifficulty}
        \cup {AddEntry("u1", StatusSolved, "Extreme", 0)}

(* What a caller may pass to an update: a stored problem as the get call   *)
(* returned it with status and difficulty, or the user, replaced; or an    *)
(* entry carrying an id that is not in the table.                          *)
UpdateEntries ==
    {[Entry(id, <<>>) EXCEPT !.Status = sd[1], !.Difficulty = sd[2]] :
        id \in DOMAIN problems, sd \in StatusDifficulty \cup {<<StatusSolved, "Extreme">>}}
    \cup {[Entry(id, <<>>) EXCEPT !.UserID = u] : id \in DOMAIN problems, u \in Users}
    \cup {[AddEntry("u1", StatusSolved, DifficultyEasy, 0) EXCEPT !.ID = id] :
             id \in (1..MaxProblems) \ DOMAIN problems}

CanIncrement(id) == id \in DOMAIN problems => problems[id].ReviewCount < MaxReviews

InitStore ==
    /\ impl \in {"sql", "gorm"}
    /\ now = 0
    /\ problems = <<>>
    /\ nextID = 1
    /\ user_stats = <<>>
    /\ tags = {}
    /\ problem_tags = {}
    /\ config \in [ReviewChannel : {"reviews"}, RetryAttempts : {0}, LookbackPeriod : {1},
                   ForeignKeys : {FALSE}]
    /\ cyc = [c \in Jobs |-> IdleCycle]
    /\ nextRun = 1
    /\ running = TRUE
    /\ stopCh = "open"
    /\ call = "none"
    /\ ret = "none"
    /\ result = NoResult
    /\ created = [u \in Users |-> [f \in Counters |-> 0]]
    /\ edits = NoEdits
    /\ cache = NewCache
    /\ schema = Migrated

DB_Insert(p) ==
    /\ impl = "sql"
    /\ nextID <= MaxProblems
    /\ \E r \in Rets : DB_InsertProblem(p, r) /\ ret' = r
    /\ call' = "DB.InsertProblem"
    /\ UNCHANGED <<now, cache, schema, schedVars, impl, result, edits>>

DB_Update(p) ==
    /\ impl = "sql"
    /\ \E r \in Rets : DB_UpdateProblem(p, r) /\ ret' = r
    /\ call' = "DB.UpdateProblem"
    /\ UNCHANGED <<now, cache, schema, schedVars, impl, result, edits>>

DB_Delete(id) ==
    /\ impl = "sql"
    /\ \E r \in Rets : DB_DeleteProblem(id, r) /\ ret' = r
    /\ call' = "DB.DeleteProblem"
    /\ UNCHANGED <<now, cache, schema, schedVars, impl, result, edits>>

DB_Increment(id) ==
    /\ impl = "sql"
    /\ CanIncrement(id)
    /\ \E r \in Rets : IncrementReviewCount(id, r) /\ ret' = r
    /\ call' = "DB.IncrementReviewCount"
    /\ UNCHANGED <<now, cache, schema, schedVars, impl, result, edits>>

Create(entry) ==
    /\ impl = "gorm"
    /\ nextID <= MaxProblems
    /\ \E r \in Rets : CreateProblem(entry, r) /\ ret' = r
    /\ call' = "Repository.CreateProblem"
    /\ UNCHANGED <<now, cache, schema, schedVars, impl, result, edits>>

Update(entry) ==
    /\ impl = "gorm"
    /\ \E r \in Rets : UpdateProblem(entry, r) /\ ret' = r
    /\ call' = "Repository.UpdateProblem"
    /\ UNCHANGED <<now, cache, schema, schedVars, impl, result, edits>>

Delete(id) ==
    /\ impl = "gorm"
    /\ \E r \in Rets : DeleteProblem(id, r) /\ ret' = r
    /\ call' = "Repository.DeleteProblem"
    /\ UNCHANGED <<now, cache, schema, schedVars, impl, result, edits>>

Increment(id) ==
    /\ impl = "gorm"
    /\ CanIncrement(id)
    /\ \E r \in Rets : IncrementReviewCount(id, r) /\ ret' = r
    /\ call' = "Repository.IncrementReviewCount"
    /\ UNCHANGED <<now, cache, schema, schedVars, impl, result, edits>>

StoreTick ==
    /\ now < MaxStoreTime
    /\ now' = now + 1
    /\ UNCHANGED <<cache, schema, storeVars, schedVars, callVars>>

NextStore ==
    \/ \E p \in StoreEntries : DB_Insert(p)
    \/ \E p \in UpdateEntries : DB_Update(p)
    \/ \E id \in 1..MaxProblems : DB_Delete(id)
    \/ \E id \in 1..MaxProblems : DB_Increment(id)
    \/ \E entry \in StoreEntries : Create(entry)
    \/ \E entry \in UpdateEntries : Update(entry)
    \/ \E id \in 1..MaxProblems : Delete(id)
    \/ \E id \in 1..MaxProblems : Increment(id)
    \/ StoreTick

SpecStore == InitStore /\ [][NextStore]_vars

(* ---------------------------------------------------------------------- *)
(* The store with tags: creates, updates and deletes of either layer with  *)
(* tag lists, with and without foreign keys enforced by the connection     *)
(* ---------------------------------------------------------------------- *)
dp == <<"d", "p">>
dpSpaced == <<" ", "d", "p", " ">>
Dp == <<"D", "p">>
blank == <<" ">>

TagLists == {<<>>, <<dp>>, <<blank, Dp>>, <<dp, dpSpaced, Dp>>}

(* One entry for each check of ValidateProblemEntry that it fails.         *)
InvalidEntries ==
    LET e == [AddEntry("u1", StatusSolved, DifficultyEasy, 0) EXCEPT !.Tags = <<dp>>]
    IN {[e EXCEPT !.UserID = ""], [e EXCEPT !.ProblemName = ""],
        [e EXCEPT !.Difficulty = "Extreme"], [e EXCEPT !.Status = "Skipped"],
        [e EXCEPT !.Category = ""]}

TagEntries ==
    {[AddEntry("u1", StatusSolved, DifficultyEasy, 0) EXCEPT !.Tags = tl] : tl \in TagLists}
        \cup InvalidEntries

(* Entries for an update: a stored problem with a new tag list, an entry   *)
(* with an id the table does not hold, and the invalid entries under each  *)
(* id.                                                                     *)
TagUpdateEntries ==
    {IF id \in DOMAIN problems THEN Entry(id, tl)
     ELSE [AddEntry("u1", StatusSolved, DifficultyEasy, 0) EXCEPT !.ID = id, !.Tags = tl] :
        id \in 1..MaxProblems, tl \in TagLists}
    \cup {[e EXCEPT !.ID = id] : e \in InvalidEntries, id \in 1..MaxProblems}

InitTags ==
    /\ impl \in {"sql", "gorm"}
    /\ now = 0
    /\ problems = <<>>
    /\ nextID = 1
    /\ user_stats = <<>>
    /\ tags = {}
    /\ problem_tags = {}
    /\ config \in [ReviewChannel : {"reviews"}, RetryAttempts : {0}, LookbackPeriod : {1},
                   ForeignKeys : BOOLEAN]
    /\ cyc = [c \in Jobs |-> IdleCycle]
    /\ nextRun = 1
    /\ running = TRUE
    /\ stopCh = "open"
    /\ call = "none"
    /\ ret = "none"
    /\ result = NoResult
    /\ created = [u \in Users |-> [f \in Counters |-> 0]]
    /\ edits = NoEdits
    /\ cache = NewCache
    /\ schema = Migrated

NextTags ==
    \/ \E p \in TagEntries : DB_Insert(p)
    \/ \E p \in TagUpdateEntries : DB_Update(p)
    \/ \E id \in 1..MaxProblems : DB_Delete(id)
    \/ \E entry \in TagEntries : Create(entry)
    \/ \E entry \in TagUpdateEntries : Update(entry)
    \/ \E id \in 1..MaxProblems : Delete(id)

SpecTags == InitTags /\ [][NextTags]_vars

(* ---------------------------------------------------------------------- *)
(* The list query over arbitrary tables, in either layer                   *)
(* ---------------------------------------------------------------------- *)

(* The Go string of a tag name held as the sequence of its characters.     *)
RECURSIVE Text(_)
Text(name) == IF name = <<>> THEN "" ELSE Head(name) \o Text(Tail(name))

(* The conditions ListProblems adds, in the order it adds them: one per    *)
(* non-empty filter, as <<column, value>>.                                 *)
Conditions(userID, status, difficulty, category) ==
    SelectSeq(<<<<"UserID", userID>>, <<"Status", status>>,
                <<"Difficulty", difficulty>>, <<"Category", category>>>>,
              LAMBDA c : c[2] # "")

(* The rows of problems JOIN problem_tags JOIN tags whose tag name is in   *)
(* names, as <<problem id, tag name>>: one row per matching link. Without  *)
(* a tag filter there is no join, one row per problem.                     *)
JoinRows(ids, joins, names) ==
    IF joins
    THEN {l \in problem_tags : l[1] \in ids /\ l[2] \in tags /\ Text(l[2]) \in names}
    ELSE {<<id, <<>>>> : id \in ids}

(* ORDER BY solved_at DESC over the rows of the join; rows with equal      *)
(* solved_at come in the order the SQL engine produces.                    *)
OrderBySolvedAtDesc(rows) ==
    {s \in Orderings(rows) :
        \A i, j \in 1..Len(s) :
            i < j => problems[s[i][1]].SolvedAt >= problems[s[j][1]].SolvedAt}

(* LIMIT and OFFSET, each added only when positive, and the conversion of  *)
(* each row that is left to a ProblemEntry.                                *)
Page(s, limit, offset) ==
    LET last == IF limit > 0 /\ offset + limit < Len(s) THEN offset + limit ELSE Len(s)
        kept == SubSeq(s, offset + 1, last)
    IN [i \in 1..Len(kept) |-> FromProblem(kept[i][1])]

(* DB.ListProblems: the values of the conditions are appended to args      *)
(* first and the tag names after them, while the query text has the        *)
(* placeholders of t.name IN (...) first and those of the conditions after *)
(* them; the i-th placeholder is bound to the i-th argument.               *)
DB_ListProblems(userID, status, difficulty, category, tagNames, limit, offset) ==
    LET conds == Conditions(userID, status, difficulty, category)
        n == Len(tagNames)
        args == [k \in 1..Len(conds) |-> conds[k][2]] \o tagNames
        inList == {args[i] : i \in 1..n}
        ids == {id \in DOMAIN problems :
                   \A k \in 1..Len(conds) : problems[id][conds[k][1]] = args[n + k]}
        rows == JoinRows(ids, n > 0, inList)
    IN {Page(s, limit, offset) : s \in OrderBySolvedAtDesc(rows)}

(* Repository.ListProblems: each Where carries its own arguments; rows     *)
(* with deleted_at set are hidden.                                         *)
ListProblems(userID, status, difficulty, category, tagNames, limit, offset) ==
    LET conds == Conditions(userID, status, difficulty, category)
        ids == {id \in Visible :
                   \A k \in 1..Len(conds) : problems[id][conds[k][1]] = conds[k][2]}
        rows == JoinRows(ids, Len(tagNames) > 0, Range(tagNames))
    IN {Page(s, limit, offset) : s \in OrderBySolvedAtDesc(rows)}

(* The rows a table can hold in this part of the model.                    *)
ListRows(layer) ==
    {[UserID |-> u, ProblemName |-> "two-sum", Difficulty |-> DifficultyEasy,
      Category |-> "array", Status |-> st, SolvedAt |-> sa,
      LastReviewedAt |-> NULL, ReviewCount |-> 0, DeletedAt |-> d] :
        u \in Users, st \in {StatusSolved, StatusStuck}, sa \in 0..MaxStoreTime,
        d \in IF layer = "gorm" THEN BOOLEAN ELSE {FALSE}}

(* The filters a caller passes.                                            *)
ListFilters ==
    [userID : {"", "u1"}, status : {"", StatusSolved}, difficulty : {""}, category : {""},
     tags : {<<>>, <<"dp">>, <<"dp", "Dp">>}, limit : 0..MaxLimit, offset : {0}]

(* result before any list query has returned.                              *)
NoList == [filter |-> [userID |-> "", status |-> "", difficulty |-> "", category |-> "",
                       tags |-> <<>>, limit |-> 0, offset |-> 0],
           rows |-> <<>>]

InitList ==
    /\ impl \in {"sql", "gorm"}
    /\ now = 0
    /\ \E n \in 0..MaxProblems :
          /\ problems \in [1..n -> ListRows(impl)]
          /\ nextID = n + 1
          /\ problem_tags \in SUBSET ((1..n) \X {dp, Dp})
    /\ tags = {l[2] : l \in problem_tags}
    /\ user_stats = <<>>
    /\ config \in [ReviewChannel : {"reviews"}, RetryAttempts : {0}, LookbackPeriod : {1},
                   ForeignKeys : {FALSE}]
    /\ cyc = [c \in Jobs |-> IdleCycle]
    /\ nextRun = 1
    /\ running = TRUE
    /\ stopCh = "open"
    /\ call = "none"
    /\ ret = "none"
    /\ result = NoList
    /\ created = [u \in Users |-> [f \in Counters |-> 0]]
    /\ edits = NoEdits
    /\ cache = NewCache
    /\ schema = Migrated

(* A call of DB.ListProblems.                                              *)
DB_List(f) ==
    /\ impl = "sql"
    /\ \E rows \in DB_ListProblems(f.userID, f.status, f.difficulty, f.category,
                                    f.tags, f.limit, f.offset) :
          result' = [filter |-> f, rows |-> rows]
    /\ call' = "DB.ListProblems"
    /\ ret' = "ok"
    /\ UNCHANGED <<now, cache, schema, storeVars, schedVars, impl, created, edits>>

(* A call of Repository.ListProblems.                                      *)
List(f) ==
    /\ impl = "gorm"
    /\ \E rows \in ListProblems(f.userID, f.status, f.difficulty, f.category,
                                 f.tags, f.limit, f.offset) :
          result' = [filter |-> f, rows |-> rows]
    /\ call' = "Repository.ListProblems"
    /\ ret' = "ok"
    /\ UNCHANGED <<now, cache, schema, storeVars, schedVars, impl, created, edits>>

NextList ==
    \/ \E f \in ListFilters : DB_List(f)
    \/ \E f \in ListFilters : List(f)

SpecList == InitList /\ [][NextList]_vars

(* ---------------------------------------------------------------------- *)
(* The get, edit and delete commands of either build, next to the store    *)
(* calls of the add command and of the scheduler                           *)
(* ---------------------------------------------------------------------- *)

(* DB.GetProblem / Repository.GetProblem of a stored row: its entry, with  *)
(* the names of its tags in the order the query returns them.              *)
GetProblem(id) ==
    {Entry(id, tl) : tl \in Orderings({l[2] : l \in LinksOf(id)})}

(* What a command answers after the store call returned r.                 *)
Response(r) == IF r = "ok" THEN "message" ELSE "error"

(* The values of the status option of the edit command.                    *)
EditOptions == {StatusStuck}

(* Handlers running at once: at most MaxEdits edit commands are between    *)
(* their GetProblem and their UpdateProblem.                               *)
CanEdit(u) ==
    /\ edits[u].pc = "idle"
    /\ Cardinality({v \in Users : edits[v].pc # "idle"}) < MaxEdits

(* Bot.handleGetCommand of the Repository build, called by user u.         *)
handleGetCommand(u, id) ==
    /\ impl = "gorm"
    /\ \/ ret' = "error"
       \/ /\ id \in Visible
          /\ problems[id].UserID = u
          /\ ret' = "message"
    /\ call' = "handleGetCommand"
    /\ UNCHANGED <<now, cache, schema, storeVars, schedVars, impl, result, created, edits>>

(* Bot.handleEditCommand of the Repository build up to its UpdateProblem:  *)
(* GetProblem, the ownership check, and the options applied to the entry.  *)
handleEditCommand_Get(u, id, status) ==
    /\ impl = "gorm"
    /\ CanEdit(u)
    /\ \/ /\ ret' = "error"
          /\ call' = "handleEditCommand"
          /\ UNCHANGED edits
       \/ /\ id \in Visible
          /\ problems[id].UserID = u
          /\ \E existing \in GetProblem(id) :
                edits' = [edits EXCEPT ![u] = [pc |-> "update",
                                               entry |-> [existing EXCEPT !.Status = status]]]
          /\ UNCHANGED <<call, ret>>
    /\ UNCHANGED <<now, cache, schema, storeVars, schedVars, impl, result, created>>

(* The rest of it: UpdateProblem with the entry, and the response.         *)
handleEditCommand_Update(u) ==
    /\ impl = "gorm"
    /\ edits[u].pc = "update"
    /\ \E r \in Rets : UpdateProblem(edits[u].entry, r) /\ ret' = Response(r)
    /\ call' = "handleEditCommand"
    /\ edits' = [edits EXCEPT ![u] = NoEdits[u]]
    /\ UNCHANGED <<now, cache, schema, schedVars, impl, result>>

(* Bot.handleDeleteCommand of the Repository build.                        *)
handleDeleteCommand(u, id) ==
    /\ impl = "gorm"
    /\ \/ /\ ret' = "error"
          /\ UNCHANGED <<storeVars, created>>
       \/ /\ id \in Visible
          /\ problems[id].UserID = u
          /\ \E r \in Rets : DeleteProblem(id, r) /\ ret' = Response(r)
    /\ call' = "handleDeleteCommand"
    /\ UNCHANGED <<now, cache, schema, schedVars, impl, result, edits>>

(* Bot.handleGetCommand of the DB build: the problem is shown to whoever   *)
(* asks for it.                                                            *)
DB_handleGetCommand(u, id) ==
    /\ impl = "sql"
    /\ \/ ret' = "error"
       \/ /\ id \in DOMAIN problems
          /\ ret' = "message"
    /\ call' = "handleGetCommand"
    /\ UNCHANGED <<now, cache, schema, storeVars, schedVars, impl, result, created, edits>>

(* Bot.handleEditCommand of the DB build up to its UpdateProblem: the      *)
(* entry GetProblem returned, with the options and the caller's id         *)
(* written into it.                                                        *)
DB_handleEditCommand_Get(u, id, status) ==
    /\ impl = "sql"
    /\ CanEdit(u)
    /\ \/ /\ ret' = "error"
          /\ call' = "handleEditCommand"
          /\ UNCHANGED edits
       \/ /\ id \in DOMAIN problems
          /\ \E existingProblem \in GetProblem(id) :
                edits' = [edits EXCEPT ![u] =
                             [pc |-> "update",
                              entry |-> [existingProblem EXCEPT !.Status = status,
                                                                !.UserID = u]]]
          /\ UNCHANGED <<call, ret>>
    /\ UNCHANGED <<now, cache, schema, storeVars, schedVars, impl, result, created>>

DB_handleEditCommand_Update(u) ==
    /\ impl = "sql"
    /\ edits[u].pc = "update"
    /\ \E r \in Rets : DB_UpdateProblem(edits[u].entry, r) /\ ret' = Response(r)
    /\ call' = "handleEditCommand"
    /\ edits' = [edits EXCEPT ![u] = NoEdits[u]]
    /\ UNCHANGED <<now, cache, schema, schedVars, impl, result>>

(* Bot.handleDeleteCommand of the DB build.                                *)
DB_handleDeleteCommand(u, id) ==
    /\ impl = "sql"
    /\ \E r \in Rets : DB_DeleteProblem(id, r) /\ ret' = Response(r)
    /\ call' = "handleDeleteCommand"
    /\ UNCHANGED <<now, cache, schema, schedVars, impl, result, edits>>

NextCommands ==
    \/ \E p \in SchedEntries : DB_Insert(p)
    \/ \E entry \in SchedEntries : Create(entry)
    \/ \E u \in Users, id \in 1..MaxProblems : DB_handleGetCommand(u, id)
    \/ \E u \in Users, id \in 1..MaxProblems : handleGetCommand(u, id)
    \/ \E u \in Users, id \in 1..MaxProblems, st \in EditOptions :
          DB_handleEditCommand_Get(u, id, st)
    \/ \E u \in Users, id \in 1..MaxProblems, st \in EditOptions :
          handleEditCommand_Get(u, id, st)
    \/ \E u \in Users : DB_handleEditCommand_Update(u)
    \/ \E u \in Users : handleEditCommand_Update(u)
    \/ \E u \in Users, id \in 1..MaxProblems : DB_handleDeleteCommand(u, id)
    \/ \E u \in Users, id \in 1..MaxProblems : handleDeleteCommand(u, id)
    \/ \E id \in 1..MaxProblems : DB_Increment(id)
    \/ \E id \in 1..MaxProblems : Increment(id)
    \/ StoreTick

SpecCommands == InitStore /\ [][NextCommands]_vars

(* ---------------------------------------------------------------------- *)
(* pkg/cache: one key of a Cache, with Set, Get and Delete calls and the   *)
(* cleanup goroutine running at once                                       *)
(* ---------------------------------------------------------------------- *)

(* The values stored and the expirations passed (0: the item never         *)
(* expires).                                                               *)
CacheValues == 1..MaxValues
Expirations == 0..MaxExpiration

(* item.expiration > 0 && time.Now().UnixNano() > item.expiration          *)
Expired(item, t) == item.expiration > 0 /\ t > item.expiration

(* Cache.SetWithExpiration (and Set, with the default expiration): the     *)
(* expiry is computed and the item stored under the key.                   *)
Cache_SetWithExpiration(value, expiration) ==
    /\ LET expiry == IF expiration > 0 THEN now + expiration ELSE 0
           item == [value |-> value, expiration |-> expiry]
       IN cache' = [cache EXCEPT !.items = item, !.stored = item]
    /\ UNCHANGED <<now, schema, storeVars, schedVars, callVars>>

(* Cache.Get up to its return or its Delete: the item is loaded; without   *)
(* one Get returns (nil, false), with a live one (value, true); with an    *)
(* expired one it goes on to delete the key.                               *)
Cache_Get(g) ==
    /\ cache.get[g].pc = "idle"
    /\ cache' = [cache EXCEPT !.get[g] =
                    IF cache.items = NoItem
                    THEN [pc |-> "idle", value |-> 0, found |-> FALSE]
                    ELSE IF Expired(cache.items, now)
                    THEN [pc |-> "delete", value |-> 0, found |-> FALSE]
                    ELSE [pc |-> "idle", value |-> cache.items.value, found |-> TRUE]]
    /\ UNCHANGED <<now, schema, storeVars, schedVars, callVars>>

(* The rest of Cache.Get on an expired item: c.items.Delete(key) removes   *)
(* whatever is under the key now, and Get returns (nil, false).            *)
Cache_Get_Delete(g) ==
    /\ cache.get[g].pc = "delete"
    /\ cache' = [cache EXCEPT !.items = NoItem,
                              !.get[g] = [pc |-> "idle", value |-> 0, found |-> FALSE]]
    /\ UNCHANGED <<now, schema, storeVars, schedVars, callVars>>

(* Cache.Delete                                                            *)
Cache_Delete ==
    /\ cache' = [cache EXCEPT !.items = NoItem, !.stored = NoItem]
    /\ UNCHANGED <<now, schema, storeVars, schedVars, callVars>>

(* cleanupExpired: Range calls the function with the item under the key;   *)
(* an expired one is to be deleted.                                        *)
cleanupExpired_Visit ==
    /\ cache.cleanup = "wait"
    /\ cache.items # NoItem
    /\ Expired(cache.items, now)
    /\ cache' = [cache EXCEPT !.cleanup = "delete"]
    /\ UNCHANGED <<now, schema, storeVars, schedVars, callVars>>

(* cleanupExpired: c.items.Delete(key) removes whatever is under the key   *)
(* now.                                                                    *)
cleanupExpired_Delete ==
    /\ cache.cleanup = "delete"
    /\ cache' = [cache EXCEPT !.items = NoItem, !.cleanup = "wait"]
    /\ UNCHANGED <<now, schema, storeVars, schedVars, callVars>>

NextCache ==
    \/ \E v \in CacheValues, e \in Expirations : Cache_SetWithExpiration(v, e)
    \/ \E g \in Getters : Cache_Get(g)
    \/ \E g \in Getters : Cache_Get_Delete(g)
    \/ Cache_Delete
    \/ cleanupExpired_Visit
    \/ cleanupExpired_Delete
    \/ Tick

SpecCache == Init /\ [][NextCache]_vars

(* ---------------------------------------------------------------------- *)
(* Migrate on a fresh or a migrated database, and the DB calls main's bot  *)
(* makes once Migrate has returned nil                                     *)
(* ---------------------------------------------------------------------- *)

(* SELECT COALESCE(MAX(version), 0) FROM schema_migrations                 *)
SchemaVersion ==
    IF schema.versions = {} THEN 0
    ELSE CHOOSE v \in schema.versions : \A w \in schema.versions : w <= v

(* The versions the loop of runMigrations passes through when it is called *)
(* with the version read from the database: in                            *)
(*   for v := currentVersion + 1; v <= currentVersion; v++                 *)
(* both names are the parameter, which hides the package constant.         *)
LoopVersions(currentVersionArg) == (currentVersionArg + 1)..currentVersionArg

(* Migrate up to the call of runMigrations: the migration table is created *)
(* if it is missing and the version read; with nothing to do Migrate       *)
(* returns nil.                                                            *)
Migrate ==
    /\ schema.pc = "idle"
    /\ \/ schema' = [schema EXCEPT !.ret = "error"]              \* a statement failed
       \/ schema' = [schema EXCEPT !.migrationTable = TRUE,
                                   !.start = SchemaVersion,
                                   !.pc = IF SchemaVersion < currentVersion
                                          THEN "runMigrations" ELSE "idle",
                                   !.ret = IF SchemaVersion < currentVersion
                                           THEN "none" ELSE "ok"]
    /\ UNCHANGED <<now, cache, storeVars, schedVars, callVars>>

(* runMigrations(ctx, db, version): one transaction around the loop; each  *)
(* pass applies migration v (only 1 is known) and records it; Migrate      *)
(* returns what runMigrations returns.                                     *)
runMigrations ==
    /\ schema.pc = "runMigrations"
    /\ LET vs == LoopVersions(schema.start)
       IN \/ schema' = [schema EXCEPT !.pc = "idle", !.ret = "error"]   \* rolled back
          \/ /\ vs \subseteq {1}
             /\ schema' = [schema EXCEPT
                              !.tables = IF 1 \in vs THEN @ \cup Tables ELSE @,
                              !.versions = @ \cup vs,
                              !.pc = "idle",
                              !.ret = "ok"]
    /\ UNCHANGED <<now, cache, storeVars, schedVars, callVars>>

(* main goes on only if Migrate returned nil.  A DB call on a database     *)
(* without the tables fails.                                               *)
AfterMigrate == schema.pc = "idle" /\ schema.ret = "ok"

(* The outcomes of a DB call: without the tables its statement fails.       *)
TableRets == IF Tables \subseteq schema.tables THEN Rets ELSE Rets \ {"ok"}

Main_Insert(p) ==
    /\ AfterMigrate
    /\ impl = "sql"
    /\ nextID <= MaxProblems
    /\ \E r \in TableRets : DB_InsertProblem(p, r) /\ ret' = r
    /\ call' = "DB.InsertProblem"
    /\ UNCHANGED <<now, cache, schema, schedVars, impl, result, edits>>

Main_Delete(id) ==
    /\ AfterMigrate
    /\ impl = "sql"
    /\ \E r \in TableRets : DB_DeleteProblem(id, r) /\ ret' = r
    /\ call' = "DB.DeleteProblem"
    /\ UNCHANGED <<now, cache, schema, schedVars, impl, result, edits>>

InitMigrate ==
    /\ impl = "sql"
    /\ now = 0
    /\ problems = <<>>
    /\ nextID = 1
    /\ user_stats = <<>>
    /\ tags = {}
    /\ problem_tags = {}
    /\ config \in [ReviewChannel : {"reviews"}, RetryAttempts : {0}, LookbackPeriod : {1},
                   ForeignKeys : {FALSE}]
    /\ cyc = [c \in Jobs |-> IdleCycle]
    /\ nextRun = 1
    /\ running = TRUE
    /\ stopCh = "open"
    /\ call = "none"
    /\ ret = "none"
    /\ result = NoResult
    /\ created = [u \in Users |-> [f \in Counters |-> 0]]
    /\ edits = NoEdits
    /\ cache = NewCache
    /\ schema \in {Fresh, Migrated}

NextMigrate ==
    \/ Migrate
    \/ runMigrations
    \/ \E p \in StoreEntries : Main_Insert(p)
    \/ \E id \in 1..MaxProblems : Main_Delete(id)
    \/ StoreTick

SpecMigrate == InitMigrate /\ [][NextMigrate]_vars

(* ---------------------------------------------------------------------- *)
(* Properties of the scheduler                                             *)
(* ---------------------------------------------------------------------- *)
Count(s, x) == Cardinality({j \in DOMAIN s : s[j] = x})

(* The listed problem is still the row the query returned.                 *)
Unchanged(p) == p.ID \in Visible /\ FromProblem(p.ID) = p

(* The ids the due query for userID may return at time t.                  *)
DueIDs(userID, t) ==
    UNION {{ps[j].ID : j \in 1..Len(ps)} :
              ps \in ListProblemsForReview(userID, config.LookbackPeriod, t)}

(* C1: when the first send fails and a retry succeeds, the unit of that  *)
(* owner ends with IncrementReviewCount called exactly once for every      *)
(* problem of the due list.                                                *)
C1_RetrySuccessIncrementsAll ==
    \A c \in Jobs :
        (cyc[c].pc = "unitDone" /\ cyc[c].firstFailed /\ cyc[c].delivered) =>
            \A j \in 1..Len(cyc[c].problems) :
                Count(cyc[c].incd, cyc[c].problems[j].ID) = 1

(* C2: IncrementReviewCount is called only in a unit whose send has        *)
(* succeeded; a unit whose RetryAttempts+1 sends all failed calls it for   *)
(* no problem, and every problem of its due list that nobody else has      *)
(* written since is due at every later time up to the next cycle.          *)
C2_NoIncrementWithoutDelivery ==
    \A c \in Jobs :
        /\ Len(cyc[c].incd) > 0 => cyc[c].delivered
        /\ (cyc[c].pc = "unitDone" /\ cyc[c].sends > 0 /\ ~cyc[c].delivered) =>
              /\ cyc[c].sends = config.RetryAttempts + 1
              /\ cyc[c].incd = <<>>
              /\ \A j \in 1..Len(cyc[c].problems) :
                    Unchanged(cyc[c].problems[j]) =>
                        \A t \in now..(now + Day) :
                            cyc[c].problems[j].ID \in DueIDs(cyc[c].users[cyc[c].idx], t)

C2_Witness ==
    \E c \in Jobs :
        /\ cyc[c].pc = "unitDone"
        /\ config.RetryAttempts >= 1
        /\ cyc[c].sends = config.RetryAttempts + 1
        /\ ~cyc[c].delivered
        /\ Len(cyc[c].problems) = 2
        /\ \A j \in 1..2 : Unchanged(cyc[c].problems[j])

(* C3: every send of a unit but the first follows a failed send, none      *)
(* follows a successful one, and a unit sends at most RetryAttempts+1      *)
(* times (once when RetryAttempts is 0).                                   *)
C3_BoundedRetries ==
    [][\A c \in Jobs :
          cyc'[c].sends > cyc[c].sends =>
              /\ ~cyc[c].delivered
              /\ cyc[c].sends > 0 => cyc[c].firstFailed
              /\ cyc'[c].sends = cyc[c].sends + 1
              /\ cyc'[c].sends <= config.RetryAttempts + 1]_vars

C3_Witness ==
    \E c \in Jobs :
        /\ cyc[c].pc = "unitDone"
        /\ config.RetryAttempts >= 1
        /\ cyc[c].sends = config.RetryAttempts + 1
        /\ cyc[c].delivered

(* C4: at most one execution of the daily job is in progress.              *)
C4_NoOverlap == Cardinality({c \in Jobs : Active(c)}) <= 1

(* C5: once Stop has been called, a job whose current owner's unit is      *)
(* complete returns instead of going on to another owner.                  *)
C5_StopHaltsFurtherOwners ==
    [][\A c \in Jobs :
          (stopCh = "closed" /\ cyc[c].pc = "unitDone" /\ cyc'[c] # cyc[c]) =>
              cyc'[c].pc = "idle"]_vars

(* C6: a job that is past ListAllUsers returns only from the end of the    *)
(* loop, with the due query performed for every listed user, whatever      *)
(* failed on the way.                                                      *)
C6_FailureNeverEndsCycle ==
    [][\A c \in Jobs :
          (Active(c) /\ cyc'[c].pc = "idle") =>
              /\ cyc[c].pc = "unitDone"
              /\ cyc[c].queried = Range(cyc[c].users)]_vars

C6_Witness ==
    \E c \in Jobs :
        /\ cyc[c].pc = "unitDone"
        /\ cyc[c].failed
        /\ Len(cyc[c].users) = 2
        /\ cyc[c].idx = 2
        /\ cyc[c].sends = 0
        /\ cyc[c].queried = Range(cyc[c].users)

(* C7: a stored problem is in the result of the due query for a user, a    *)
(* lookback and a time exactly when it is that user's, was solved at or    *)
(* before time - lookback, and was never reviewed or last reviewed at or   *)
(* before time - lookback; the result holds each such problem once, as it  *)
(* is stored.                                                              *)
C7_DueIffSelected ==
    result.userID # "" =>
        LET cutoff == result.at - result.lookbackPeriod
            rows == result.rows
        IN /\ \A id \in Visible :
                 (\E j \in 1..Len(rows) : rows[j].ID = id)
                     <=> /\ problems[id].UserID = result.userID
                         /\ problems[id].SolvedAt <= cutoff
                         /\ \/ problems[id].LastReviewedAt = NULL
                            \/ problems[id].LastReviewedAt <= cutoff
           /\ \A j \in 1..Len(rows) :
                 /\ rows[j].ID \in Visible
                 /\ rows[j] = FromProblem(rows[j].ID)
                 /\ \A k \in 1..Len(rows) : rows[k].ID = rows[j].ID => k = j

(* A query returned one problem and left out another of the same user      *)
(* that was solved early enough but reviewed after the cutoff, and one     *)
(* solved after the cutoff.                                                *)
C7_Witness ==
    /\ result.userID # ""
    /\ Len(result.rows) >= 1
    /\ \E id \in Visible :
          /\ problems[id].UserID = result.userID
          /\ problems[id].SolvedAt <= result.at - result.lookbackPeriod
          /\ problems[id].LastReviewedAt # NULL
          /\ problems[id].LastReviewedAt > result.at - result.lookbackPeriod

(* C8: the result of the due query is in ascending order of solved_at,     *)
(* and the query asked again of the same tables at the same time with the  *)
(* same user and lookback returns the same sequence.                       *)
C8_SortedDeterministic ==
    [][/\ \A i, j \in 1..Len(result'.rows) :
             i < j => result'.rows[i].SolvedAt <= result'.rows[j].SolvedAt
       /\ (/\ result.userID # ""
           /\ result'.userID = result.userID
           /\ result'.lookbackPeriod = result.lookbackPeriod
           /\ result'.at = result.at
           /\ problems' = problems)
              => result'.rows = result.rows]_vars

(* C9: a problem that has been incremented, at time LastReviewedAt, is     *)
(* returned by no due query that runs before LastReviewedAt + lookback.    *)
C9_NotDueAfterIncrement ==
    \A c \in Jobs :
        \A j \in 1..Len(cyc[c].problems) :
            LET p == cyc[c].problems[j]
            IN p.ReviewCount > 0 =>
                  /\ p.LastReviewedAt # NULL
                  /\ cyc[c].queryAt >= p.LastReviewedAt + config.LookbackPeriod

(* A query that ran before LastReviewedAt + lookback returned another      *)
(* problem of the user and left the incremented one out.                   *)
C9_Witness ==
    \E c \in Jobs :
        /\ cyc[c].pc = "send"
        /\ \E id \in Visible :
              /\ problems[id].UserID = cyc[c].users[cyc[c].idx]
              /\ problems[id].ReviewCount > 0
              /\ problems[id].LastReviewedAt <= cyc[c].queryAt
              /\ cyc[c].queryAt < problems[id].LastReviewedAt + config.LookbackPeriod
              /\ \A j \in 1..Len(cyc[c].problems) : cyc[c].problems[j].ID # id

(* C10: every counter of a user's statistics equals the number of that     *)
(* user's stored problems with the counter's status or difficulty.         *)
C10_StatsMirrorItems ==
    \A u \in DOMAIN user_stats :
        /\ \A st \in {StatusSolved, StatusNeededHint, StatusStuck} :
              user_stats[u][StatusCounter(st)] =
                  Cardinality({id \in Visible : problems[id].UserID = u /\ problems[id].Status = st})
        /\ \A d \in {DifficultyEasy, DifficultyMedium, DifficultyHard} :
              user_stats[u][DifficultyCounter(d)] =
                  Cardinality({id \in Visible : problems[id].UserID = u /\ problems[id].Difficulty = d})

(* C10, amended: in the layer that keeps statistics, every counter of a    *)
(* user equals the number of problems created for that user with the       *)
(* counter's status or difficulty, whatever has been updated, deleted or   *)
(* incremented since; a user with no creation has no statistics.           *)
C10_StatsCountCreations ==
    impl = "sql" =>
        \A u \in Users :
            IF u \in DOMAIN user_stats
            THEN \A f \in Counters : user_stats[u][f] = created[u][f]
            ELSE \A f \in Counters : created[u][f] = 0

(* A user's statistics count two creations while one of the problems has   *)
(* been deleted and the other's status replaced.                           *)
C10_Witness ==
    /\ impl = "sql"
    /\ \E u \in DOMAIN user_stats :
          /\ user_stats[u].TotalSolved = 2
          /\ Cardinality({id \in DOMAIN problems : problems[id].UserID = u}) = 1
          /\ \A id \in DOMAIN problems : problems[id].Status = StatusStuck

(* C11: a successful create adds one to the counter of the entry's status  *)
(* and one to the counter of its difficulty in the statistics of the       *)
(* entry's user, inserting that row if it is missing, sets last_active_at  *)
(* to the time of the call, and leaves the user's other four counters and  *)
(* the rows of the other users as they were.                               *)
C11_CreateCountsOnce ==
    [][\A p \in StoreEntries :
          ((DB_Insert(p) \/ Create(p)) /\ ret' = "ok") =>
              LET old == IF p.UserID \in DOMAIN user_stats
                         THEN user_stats[p.UserID] ELSE ZeroStats
              IN /\ DOMAIN user_stats' = DOMAIN user_stats \cup {p.UserID}
                 /\ \A f \in Counters :
                       user_stats'[p.UserID][f] =
                           IF f \in {StatusCounter(p.Status), DifficultyCounter(p.Difficulty)}
                           THEN old[f] + 1 ELSE old[f]
                 /\ user_stats'[p.UserID].LastActiveAt = now
                 /\ \A u \in DOMAIN user_stats \ {p.UserID} :
                       user_stats'[u] = user_stats[u]]_vars

(* C12: no store call removes a row of the statistics or lowers one of its *)
(* counters, and a delete leaves the statistics exactly as they were.      *)
C12_StatsNeverDecrease ==
    [][/\ DOMAIN user_stats \subseteq DOMAIN user_stats'
       /\ \A u \in DOMAIN user_stats : \A f \in Counters :
             user_stats'[u][f] >= user_stats[u][f]
       /\ \A id \in 1..MaxProblems :
             (DB_Delete(id) \/ Delete(id)) => user_stats' = user_stats]_vars

(* Every problem has been deleted from the table that keeps statistics,    *)
(* and the statistics still count the creations.                           *)
C12_Witness ==
    /\ call = "DB.DeleteProblem"
    /\ ret = "ok"
    /\ nextID = MaxProblems + 1
    /\ problems = <<>>
    /\ \E u \in DOMAIN user_stats : user_stats[u].TotalStuck + user_stats[u].TotalSolved >= 2

(* C13: a create with a valid entry is not refused for its tag list,       *)
(* whatever the list, and a successful create links the new problem to     *)
(* exactly the distinct, trimmed, non-empty names of the list (compared    *)
(* case-sensitively), each of which is then a stored tag.                  *)
C13_CreateLinksTrimmedTags ==
    [][\A p \in TagEntries \ InvalidEntries :
          /\ (impl = "sql" /\ nextID <= MaxProblems) => ENABLED (DB_Insert(p) /\ ret' = "ok")
          /\ (impl = "gorm" /\ nextID <= MaxProblems) => ENABLED (Create(p) /\ ret' = "ok")
          /\ ((DB_Insert(p) \/ Create(p)) /\ ret' = "ok") =>
                /\ {l[2] : l \in {k \in problem_tags' : k[1] = nextID}}
                       = {TrimSpace(p.Tags[i]) : i \in DOMAIN p.Tags} \ {<<>>}
                /\ {TrimSpace(p.Tags[i]) : i \in DOMAIN p.Tags} \ {<<>>} \subseteq tags']_vars

(* C14: a create or an update with an entry that has an empty user, name   *)
(* or category, or a difficulty or status outside the enumerations,        *)
(* returns the validation error and leaves problems, tags, links and       *)
(* statistics as they were; every stored problem has a user, a name and    *)
(* an enumerated difficulty and status.                                    *)
C14_InvalidEntryWritesNothing ==
    [][/\ \A e \in InvalidEntries :
             /\ (DB_Insert(e) \/ Create(e)) =>
                   (ret' = "validation" /\ UNCHANGED storeVars)
             /\ \A id \in 1..MaxProblems :
                   (DB_Update([e EXCEPT !.ID = id]) \/ Update([e EXCEPT !.ID = id])) =>
                       (ret' = "validation" /\ UNCHANGED storeVars)
       /\ \A id \in DOMAIN problems' :
             /\ problems'[id].UserID # ""
             /\ problems'[id].ProblemName # ""
             /\ problems'[id].Difficulty \in {DifficultyEasy, DifficultyMedium, DifficultyHard}
             /\ problems'[id].Status \in {StatusSolved, StatusNeededHint, StatusStuck}]_vars

(* An update was refused by the validation while the store held a problem  *)
(* with a tag.                                                             *)
C14_Witness ==
    /\ call = "Repository.UpdateProblem"
    /\ ret = "validation"
    /\ problems # <<>>
    /\ problem_tags # {}

(* C15: a create that returns an error leaves no trace: problems, the id   *)
(* counter, tags, links and statistics are as they were before the call.   *)
C15_FailedCreateLeavesNothing ==
    [][\A p \in TagEntries :
          ((DB_Insert(p) \/ Create(p)) /\ ret' # "ok") => UNCHANGED storeVars]_vars

(* An insert into the empty store has failed inside its transaction (as   *)
(* the one whose second link is refused does, after the row, a tag and a   *)
(* link were written), and the store is still empty.                       *)
C15_Witness ==
    /\ call = "DB.InsertProblem"
    /\ ret = "tx"
    /\ nextID = 1
    /\ problems = <<>>
    /\ tags = {}
    /\ problem_tags = {}
    /\ user_stats = <<>>

(* C16: the owner of a problem never changes: whatever store call is made, *)
(* in particular an update with an entry that carries another user, every  *)
(* row that is still in the table keeps the UserID it had.                 *)
C16_OwnerNeverChanges ==
    [][\A id \in DOMAIN problems :
          id \in DOMAIN problems' => problems'[id].UserID = problems[id].UserID]_vars

(* C17: an update with a valid entry whose id names no stored problem      *)
(* fails: it returns the not-found error (or the error of a database       *)
(* failure), never nil, and no problem row, tag or link is created or      *)
(* modified.                                                               *)
C17_UpdateOfMissingFails ==
    [][\A p \in TagUpdateEntries :
          (/\ ValidateProblemEntry(p)
           /\ p.ID \notin Visible
           /\ DB_Update(p) \/ Update(p))
              => (ret' \in {"notfound", "tx"} /\ UNCHANGED storeVars)]_vars

(* C18: a delete of an id that is not in the store, never created or       *)
(* already deleted, fails: it returns the not-found error (or the error of *)
(* a database failure), never nil, and the store is unchanged.             *)
C18_DeleteOfMissingFails ==
    [][\A id \in (1..MaxProblems) \ Visible :
          (DB_Delete(id) \/ Delete(id))
              => (ret' \in {"notfound", "tx"} /\ UNCHANGED storeVars)]_vars

(* C19: after a delete that returned nil the problem is no longer visible  *)
(* to the get, list and due queries, and no link of problem_tags refers to *)
(* its id.                                                                 *)
C19_DeleteRemovesItemAndLinks ==
    [][\A id \in 1..MaxProblems :
          ((DB_Delete(id) \/ Delete(id)) /\ ret' = "ok")
              => (/\ id \notin {i \in DOMAIN problems' : ~problems'[i].DeletedAt}
                  /\ \A l \in problem_tags' : l[1] # id)]_vars

(* C20: each increment of a stored problem that returns nil adds exactly   *)
(* one to its ReviewCount and sets its LastReviewedAt to the time of the   *)
(* call; every other field of the row, every other row, the tags, the      *)
(* links and the statistics stay as they were. N such calls in a row       *)
(* therefore add N and leave the time of the last one.                     *)
C20_IncrementAddsOne ==
    [][\A id \in Visible :
          ((DB_Increment(id) \/ Increment(id)) /\ ret' = "ok")
              => (/\ DOMAIN problems' = DOMAIN problems
                  /\ problems'[id].ReviewCount = problems[id].ReviewCount + 1
                  /\ problems'[id].LastReviewedAt = now
                  /\ \A f \in DOMAIN problems[id] \ {"ReviewCount", "LastReviewedAt"} :
                        problems'[id][f] = problems[id][f]
                  /\ \A other \in DOMAIN problems \ {id} :
                        problems'[other] = problems[other]
                  /\ UNCHANGED <<nextID, user_stats, tags, problem_tags>>)]_vars

(* The second increment of a problem has just returned, later than the     *)
(* first: its count is two and its time is that of the second call, and    *)
(* another stored problem has never been incremented.                      *)
C20_Witness ==
    /\ call \in {"DB.IncrementReviewCount", "Repository.IncrementReviewCount"}
    /\ ret = "ok"
    /\ now = MaxStoreTime
    /\ \E id \in Visible :
          /\ problems[id].ReviewCount = MaxReviews
          /\ problems[id].LastReviewedAt = now
          /\ \E other \in Visible \ {id} :
                /\ problems[other].ReviewCount = 0
                /\ problems[other].LastReviewedAt = NULL

(* The stored problems the filter f asks for: those that satisfy every     *)
(* non-empty filter and, with a tag filter, have a tag in the given set.   *)
Matching(f) ==
    {id \in Visible :
        /\ f.userID # "" => problems[id].UserID = f.userID
        /\ f.status # "" => problems[id].Status = f.status
        /\ f.difficulty # "" => problems[id].Difficulty = f.difficulty
        /\ f.category # "" => problems[id].Category = f.category
        /\ f.tags # <<>> =>
              \E l \in problem_tags : l[1] = id /\ Text(l[2]) \in Range(f.tags)}

(* C21: a list query without a limit returns exactly the stored problems   *)
(* that satisfy every non-empty filter at once, the tag filter included,   *)
(* in non-increasing order of SolvedAt.                                    *)
C21_ListMatchesFilters ==
    (call \in {"DB.ListProblems", "Repository.ListProblems"} /\ result.filter.limit = 0)
        => /\ {result.rows[i].ID : i \in 1..Len(result.rows)} = Matching(result.filter)
           /\ \A i, j \in 1..Len(result.rows) :
                 i < j => result.rows[i].SolvedAt >= result.rows[j].SolvedAt

(* C22: a get, edit or delete command of user u on a stored problem whose  *)
(* owner is another user answers with an error response and leaves the     *)
(* store as it was: the get shows nothing, the edit is refused before any  *)
(* update is made, the delete removes nothing.                             *)
C22_CommandsRespectOwner ==
    [][\A u \in Users :
          /\ \A id \in Visible :
                (/\ problems[id].UserID # u
                 /\ \/ DB_handleGetCommand(u, id) \/ handleGetCommand(u, id)
                    \/ DB_handleDeleteCommand(u, id) \/ handleDeleteCommand(u, id))
                    => (ret' = "error" /\ UNCHANGED storeVars)
          /\ \A id \in Visible, st \in EditOptions :
                (/\ problems[id].UserID # u
                 /\ DB_handleEditCommand_Get(u, id, st) \/ handleEditCommand_Get(u, id, st))
                    => (ret' = "error" /\ edits'[u].pc = "idle" /\ UNCHANGED storeVars)
          /\ (/\ edits[u].pc = "update"
              /\ edits[u].entry.ID \in Visible
              /\ problems[edits[u].entry.ID].UserID # u
              /\ DB_handleEditCommand_Update(u) \/ handleEditCommand_Update(u))
                 => (ret' = "error" /\ UNCHANGED storeVars)]_vars

(* C26: whatever step is taken while edit commands and increments          *)
(* interleave, the ReviewCount of a stored problem never decreases and its *)
(* LastReviewedAt never moves backwards.                                   *)
C26_ReviewStateNeverRegresses ==
    [][\A id \in Visible :
          id \in DOMAIN problems'
              => /\ problems'[id].ReviewCount >= problems[id].ReviewCount
                 /\ problems'[id].LastReviewedAt >= problems[id].LastReviewedAt]_vars

(* C23: an update of a stored problem with a valid entry can succeed       *)
(* whatever its tag list is, also one that holds a name twice after        *)
(* trimming, and after an update that returned nil the problem's links are *)
(* exactly the distinct trimmed non-empty names of the list.               *)
C23_UpdateResyncsTags ==
    [][\A p \in TagUpdateEntries :
          (ValidateProblemEntry(p) /\ p.ID \in Visible)
              => /\ ENABLED ((DB_Update(p) \/ Update(p)) /\ ret' = "ok")
                 /\ ((DB_Update(p) \/ Update(p)) /\ ret' = "ok")
                       => {l[2] : l \in {k \in problem_tags' : k[1] = p.ID}}
                              = Range(TagNames(p.Tags))]_vars

(* C24: after a delivery at the first attempt, a pass of the loop over the *)
(* due problems whose increment changed nothing (it failed) still moves on *)
(* to the next problem of the list, so that when the loop is left          *)
(* IncrementReviewCount has been called for every problem of the list in   *)
(* order; the problem whose increment failed keeps its row, and while it   *)
(* is stored as the query returned it, it is due at every later time.      *)
C24_FailedIncrementSkipsOnlyItself ==
    [][\A c \in Jobs :
          (cyc[c].pc = "inc" /\ cyc'[c] # cyc[c])
              => LET k == cyc[c].k
                     p == cyc[c].problems[k]
                 IN /\ cyc'[c].incd = Append(cyc[c].incd, p.ID)
                    /\ cyc'[c].problems = cyc[c].problems
                    /\ cyc'[c].k = k + 1
                    /\ cyc'[c].pc = IF k < Len(cyc[c].problems) THEN "inc" ELSE "unitDone"
                    /\ cyc'[c].pc = "unitDone"
                          => cyc'[c].incd = [j \in 1..Len(cyc[c].problems) |->
                                                cyc[c].problems[j].ID]
                    /\ (problems' = problems /\ p.ID \in Visible /\ FromProblem(p.ID) = p)
                          => \A t \in now..(MaxTime + Day) :
                                ReviewWhere(p.ID, p.UserID, t - config.LookbackPeriod)]_vars

(* The loop over a list of two due problems has been left: the increment   *)
(* of the first failed and its row is as the query returned it, the        *)
(* increment of the second was made.                                       *)
C24_Witness ==
    \E c \in Jobs :
        /\ cyc[c].pc = "unitDone"
        /\ cyc[c].delivered /\ ~cyc[c].firstFailed
        /\ cyc[c].failed
        /\ Len(cyc[c].problems) = 2
        /\ Len(cyc[c].incd) = 2
        /\ LET first == cyc[c].problems[1]
               second == cyc[c].problems[2]
           IN /\ first.ID \in Visible /\ second.ID \in Visible
              /\ FromProblem(first.ID) = first
              /\ problems[second.ID].ReviewCount = second.ReviewCount + 1
              /\ problems[second.ID].LastReviewedAt >= cyc[c].queryAt

(* C25: an increment returns nil only if the ReviewCount of the stored     *)
(* problem with that id was incremented; for an id that is not in the      *)
(* store it returns an error.                                              *)
C25_IncrementNeverFailsSilently ==
    [][\A id \in 1..MaxProblems :
          ((DB_Increment(id) \/ Increment(id)) /\ ret' = "ok")
              => /\ id \in Visible
                 /\ problems'[id].ReviewCount = problems[id].ReviewCount + 1]_vars

(* C27: a list query with a tag filter returns each problem at most once,  *)
(* also a problem that carries several tags of the filter, and with a      *)
(* positive limit it returns at most that many distinct problems.          *)
C27_ListReturnsEachOnce ==
    (call \in {"DB.ListProblems", "Repository.ListProblems"} /\ result.filter.tags # <<>>)
        => /\ \A i, j \in 1..Len(result.rows) :
                 i # j => result.rows[i].ID # result.rows[j].ID
           /\ result.filter.limit > 0
                 => Cardinality({result.rows[i].ID : i \in 1..Len(result.rows)})
                        <= result.filter.limit

(* C28: Scheduler.Stop returns normally in every state of the scheduler,   *)
(* after a StartScheduler that failed to register the job and after an     *)
(* earlier Stop alike, and leaves the scheduler stopped with its channel   *)
(* closed.                                                                 *)
C28_StopIsSafeAndIdempotent ==
    call = "Scheduler.Stop" => (ret = "ok" /\ ~running /\ stopCh = "closed")

(* C29: a Get that starts while the item the last SetWithExpiration stored *)
(* has neither expired nor been removed by a Delete call returns that      *)
(* item's value, whatever Get calls and cleanup visits are under way on an *)
(* earlier, expired item of the key.                                       *)
C29_StoredValueIsReturned ==
    [][\A g \in Getters :
          (/\ cache.get[g].pc = "idle"
           /\ Cache_Get(g)
           /\ cache.stored # NoItem
           /\ ~Expired(cache.stored, now))
              => /\ cache'.get[g].pc = "idle"
                 /\ cache'.get[g].found
                 /\ cache'.get[g].value = cache.stored.value]_vars

(* C30: when Migrate has returned nil on a database whose recorded version *)
(* was 0, the recorded version is the target version 1 and the tables      *)
(* problems, tags, problem_tags and user_stats exist.                      *)
C30_MigrateReachesTarget ==
    (schema.pc = "idle" /\ schema.ret = "ok" /\ schema.start = 0)
        => /\ SchemaVersion = currentVersion
           /\ Tables \subseteq schema.tables

====
